---------------------------- MODULE Spec2Model ----------------------------
(***************************************************************************)
(* The schema-to-type compiler of express-zod-api (zodToTs and its         *)
(* producers) as a state machine.  One top-level conversion is a walk of   *)
(* a schema: every producer is an action that either calls next on a       *)
(* child schema (pushing a frame of the walker's call stack) or returns    *)
(* its TypeNode to the caller (popping the frame).  The Alias Table is the  *)
(* one piece of state shared by the whole walk.                            *)
(***************************************************************************)
EXTENDS Integers, Sequences, FiniteSets, TLC

VARIABLES
  pc,        \* "idle" before the call, "walking" during it, "done" after it, "error" if it threw
  schema,    \* the root schema given to zodToTs (<<>> before the call)
  defs,      \* what each lazy getter returns: definition number -> schema
  ctx,       \* the ZTSContext of the call: isResponse and optionalPropStyle
  aliases,   \* the Alias Table: entries [name, type] in insertion order
  stack,     \* the walker's call stack: one frame per walkSchema invocation in progress
  result,    \* <<>> until the top-level call returns, then <<its TypeNode>>
  last,      \* <<>> or <<the producer invocation that returned last>> (history)
  lazyLog    \* what the lazy producer did, in order (history)

vars == <<pc, schema, defs, ctx, aliases, stack, result, last, lazyLog>>

---------------------------------------------------------------------------
(* Bounds of the model.                                                    *)

\* The number of schema definitions a lazy getter can refer to.
MaxDefs == 2
\* The depth of the call stack at which the engine gives up (RangeError).
MaxStack == 12

---------------------------------------------------------------------------
(* Schema nodes.  tn is the kind tag the walker dispatches on, kids the    *)
(* child schemas, aux the payload of the kind (a literal's value, an       *)
(* enum's options, an effect's type and function, a file's underlying      *)
(* class, a tuple's rest flag), ref the definition a lazy getter returns,  *)
(* opt what the schema's isOptional() answers and coerce its coercion      *)
(* flag.                                                                   *)

S(tn, aux, kids) ==
  [tn |-> tn, aux |-> aux, ref |-> 0, opt |-> FALSE, coerce |-> FALSE, kids |-> kids]

Lazy(n) == [S("ZodLazy", "", <<>>) EXCEPT !.ref = n]

WithFlags(s, o, c) == [s EXCEPT !.opt = o, !.coerce = c]

\* TypeNodes: kind is the ts.SyntaxKind, text an identifier or literal text,
\* q the question token of a property signature, ref <<alias name>> for a
\* type reference to an alias, types the child nodes.
T(kind, text, types) ==
  [kind |-> kind, text |-> text, q |-> FALSE, ref |-> <<>>, types |-> types]

createKeywordTypeNode(kind) == T(kind, "", <<>>)

createLiteralTypeNode(lit) == T("LiteralType", "", <<lit>>)

createNull == T("NullKeyword", "", <<>>)

createStringLiteral(text) == T("StringLiteral", text, <<>>)

createNumericLiteral(text) == T("NumericLiteral", text, <<>>)

createUnionTypeNode(types) == T("UnionType", "", types)

createPropertySignature(name, question, type) ==
  [T("PropertySignature", name, <<type>>) EXCEPT !.q = question]

createTypeReferenceNode(name) ==
  [T("TypeReference", "", <<>>) EXCEPT !.ref = <<name>>]

\* The values a literal, an enum or a native enum carries, by payload:
\* each value is <<its runtime type, its text>>.
ValuesOf(aux) ==
  CASE aux = "1" -> << <<"number", "1">> >>
    [] aux = "true" -> << <<"boolean", "true">> >>
    [] aux = "false" -> << <<"boolean", "false">> >>
    [] aux = "a" -> << <<"string", "a">> >>
    [] aux = "x,y" -> << <<"string", "x">>, <<"string", "y">> >>
    [] aux = "A,0" -> << <<"string", "A">>, <<"number", "0">> >>
    [] OTHER -> <<>>

\* The property names of an object's shape, in declaration order.
Key(i) == <<"a", "b", "c", "d">>[i]

---------------------------------------------------------------------------
(* The collaborators of the producers: the walker's context.               *)

\* serializer: the structural fingerprint of a schema.  A lazy getter and a
\* transform function are closures, which are no part of the structure.
RECURSIVE serialize(_)
serialize(s) ==
  [tn |-> s.tn,
   aux |-> IF s.tn = "ZodEffects"
             THEN (IF s.aux \in {"refinement", "preprocess"} THEN s.aux ELSE "transform")
             ELSE s.aux,
   coerce |-> s.coerce,
   kids |-> [i \in DOMAIN s.kids |-> serialize(s.kids[i])]]

\* getAlias: the reference to the entry under a name, <<>> when there is none.
getAlias(table, name) ==
  IF \E i \in DOMAIN table : table[i].name = name
    THEN <<createTypeReferenceNode(name)>>
    ELSE <<>>

\* makeAlias: the table with the entry under a name set to a type.
makeAlias(table, name, type) ==
  IF \E i \in DOMAIN table : table[i].name = name
    THEN [i \in DOMAIN table |->
            IF table[i].name = name THEN [name |-> name, type |-> type] ELSE table[i]]
    ELSE Append(table, [name |-> name, type |-> type])

hasCoercion(s) == s.coerce

isOptional(s) == s.tn = "ZodOptional" \/ s.opt

\* The caller's transform functions: the runtime type of what each returns on
\* a sample, or "throws".
typeofSample(sample) ==
  CASE sample = "emptyString" -> "string"
    [] sample = "bigint0" -> "bigint"
    [] sample = "false" -> "boolean"
    [] sample = "zero" -> "number"
    [] sample = "emptyObject" -> "object"
    [] OTHER -> "undefined"

transform(fn, sample) ==
  CASE fn = "parseInt" -> "number"
    [] fn = "fail" -> "throws"
    [] fn = "identity" -> typeofSample(sample)
    [] fn = "thunk" -> "function"
    [] fn = "toObject" -> "object"
    [] fn = "length" ->
         (IF sample = "emptyString" THEN "number"
          ELSE IF sample = "undefined" THEN "throws" ELSE "undefined")
    [] OTHER -> "throws"

\* tryToTransform: the runtime type of the transform's result on the sample,
\* "" (nothing) when the guarded call failed.
tryToTransform(s, sample) ==
  LET r == transform(s.aux, sample) IN IF r = "throws" THEN "" ELSE r

---------------------------------------------------------------------------
(* The producers' tables.                                                  *)

SampleKinds ==
  {"AnyKeyword", "BigIntKeyword", "BooleanKeyword", "NumberKeyword",
   "ObjectKeyword", "StringKeyword", "UndefinedKeyword"}

\* A faulty table without a sample for any; C6_SampledType must reject it.
samples_withoutAny(kind) ==
  CASE kind = "BigIntKeyword" -> "bigint0"
    [] kind = "BooleanKeyword" -> "false"
    [] kind = "NumberKeyword" -> "zero"
    [] kind = "ObjectKeyword" -> "emptyObject"
    [] kind = "StringKeyword" -> "emptyString"
    [] OTHER -> "undefined"

samples(kind) ==
  CASE kind = "AnyKeyword" -> "emptyString"
    [] kind = "BigIntKeyword" -> "bigint0"
    [] kind = "BooleanKeyword" -> "false"
    [] kind = "NumberKeyword" -> "zero"
    [] kind = "ObjectKeyword" -> "emptyObject"
    [] kind = "StringKeyword" -> "emptyString"
    [] kind = "UndefinedKeyword" -> "undefined"

\* A kind without an entry reads as undefined, as a missing property does.
makeSample(produced) ==
  IF produced.kind \in SampleKinds THEN samples(produced.kind) ELSE "undefined"

ResolutionTypes == {"number", "bigint", "boolean", "string", "undefined", "object"}

resolutions(outputType) ==
  CASE outputType = "number" -> "NumberKeyword"
    [] outputType = "bigint" -> "BigIntKeyword"
    [] outputType = "boolean" -> "BooleanKeyword"
    [] outputType = "string" -> "StringKeyword"
    [] outputType = "undefined" -> "UndefinedKeyword"
    [] outputType = "object" -> "ObjectKeyword"

\* A faulty classification without the fallback to any; C5_FailureContained
\* must reject it.
effectKeyword_noFallback(outputType) ==
  IF outputType \in ResolutionTypes THEN resolutions(outputType) ELSE "UndefinedKeyword"

\* (outputType && resolutions[outputType]) || ts.SyntaxKind.AnyKeyword
effectKeyword(outputType) ==
  IF outputType # "" /\ outputType \in ResolutionTypes
    THEN resolutions(outputType)
    ELSE "AnyKeyword"

effectType(s) == IF s.aux \in {"refinement", "preprocess"} THEN s.aux ELSE "transform"

\* The registry: the producer of each kind, and the keyword of a primitive.
PrimitiveKinds ==
  {"ZodString", "ZodNumber", "ZodBigInt", "ZodBoolean", "ZodAny", "DateIn", "DateOut"}

primitiveKeyword(tn) ==
  CASE tn = "ZodString" -> "StringKeyword"
    [] tn = "ZodNumber" -> "NumberKeyword"
    [] tn = "ZodBigInt" -> "BigIntKeyword"
    [] tn = "ZodBoolean" -> "BooleanKeyword"
    [] tn = "ZodAny" -> "AnyKeyword"
    [] tn = "DateIn" -> "StringKeyword"
    [] tn = "DateOut" -> "StringKeyword"

producers ==
  [tn \in PrimitiveKinds |-> "onPrimitive"] @@
  ("ZodNull" :> "onNull" @@ "ZodArray" :> "onArray" @@ "ZodTuple" :> "onTuple" @@
   "ZodRecord" :> "onRecord" @@ "ZodObject" :> "onObject" @@
   "ZodLiteral" :> "onLiteral" @@ "ZodIntersection" :> "onIntersection" @@
   "ZodUnion" :> "onSomeUnion" @@ "ZodDefault" :> "onDefault" @@
   "ZodEnum" :> "onEnum" @@ "ZodNativeEnum" :> "onNativeEnum" @@
   "ZodEffects" :> "onEffects" @@ "ZodOptional" :> "onOptional" @@
   "ZodNullable" :> "onNullable" @@ "ZodDiscriminatedUnion" :> "onSomeUnion" @@
   "ZodBranded" :> "onBranded" @@ "ZodCatch" :> "onCatch" @@
   "ZodPipeline" :> "onPipeline" @@ "ZodLazy" :> "onLazy" @@
   "ZodReadonly" :> "onReadonly" @@ "File" :> "onFile" @@ "Raw" :> "onRaw")

\* A faulty fallback type; C4_Total must reject it.
onMissingType_unknown == createKeywordTypeNode("UnknownKeyword")

\* onMissing of zodToTs: the type of a kind the registry does not cover.
onMissingType == createKeywordTypeNode("AnyKeyword")

---------------------------------------------------------------------------
(* The walker.  A frame is one walkSchema invocation: its schema, the      *)
(* context it was given, the TypeNodes its next calls have returned so     *)
(* far, and where its schema sits under the root (the child indices).      *)

Top == stack[Len(stack)]

\* walkSchema's lookup of the handler of a schema's kind.
handlerOf(s) == IF s.tn \in DOMAIN producers THEN producers[s.tn] ELSE "onMissing"

At(handler) == pc = "walking" /\ handlerOf(Top.schema) = handler

\* next: walkSchema on a child schema, with the caller's own context.
next(child, index) ==
  IF Len(stack) >= MaxStack
    THEN pc' = "error" /\ UNCHANGED <<stack, result, last>>
    ELSE /\ stack' = Append(stack, [schema |-> child, ctx |-> Top.ctx, results |-> <<>>,
                                    path |-> Append(Top.path, index)])
         /\ UNCHANGED <<pc, result, last>>

\* A producer's return: to the calling producer, or to the caller of zodToTs.
return(type) ==
  /\ last' = <<[schema |-> Top.schema, ctx |-> Top.ctx, results |-> Top.results,
                path |-> Top.path, type |-> type]>>
  /\ IF Len(stack) = 1
       THEN stack' = <<>> /\ result' = <<type>> /\ pc' = "done"
       ELSE /\ stack' = [SubSeq(stack, 1, Len(stack) - 1) EXCEPT
                           ![Len(stack) - 1].results = Append(@, type)]
            /\ UNCHANGED <<pc, result>>

\* schemas.map(next), then the type built of what the calls returned.
mapNext(schemas, build(_)) ==
  IF Len(Top.results) < Len(schemas)
    THEN next(schemas[Len(Top.results) + 1], Len(Top.results) + 1)
    ELSE return(build(Top.results))

NoAlias == UNCHANGED <<schema, defs, ctx, aliases, lazyLog>>

---------------------------------------------------------------------------
(* The producers.                                                          *)

literalOf(value) ==
  IF value[1] = "number" THEN createNumericLiteral(value[2])
  ELSE IF value[1] = "boolean"
    THEN (IF value[2] = "true" THEN T("TrueKeyword", "", <<>>) ELSE T("FalseKeyword", "", <<>>))
    ELSE createStringLiteral(value[2])

onLiteral ==
  /\ At("onLiteral")
  /\ return(createLiteralTypeNode(literalOf(ValuesOf(Top.schema.aux)[1])))
  /\ NoAlias

\* A faulty rule that forgets coercion; C8_MemberOptionality must reject it.
fieldIsOptional_noCoercion(value, isResponse) == isOptional(value)

\* The optionality of an object's field.
fieldIsOptional(value, isResponse) ==
  IF isResponse /\ hasCoercion(value) THEN value.tn = "ZodOptional" ELSE isOptional(value)

objectMembers(shape, c, types) ==
  [i \in DOMAIN shape |->
     createPropertySignature(Key(i),
                             fieldIsOptional(shape[i], c.isResponse) /\ c.withQuestionMark,
                             types[i])]

onObject ==
  /\ At("onObject")
  /\ mapNext(Top.schema.kids,
             LAMBDA types : T("TypeLiteral", "", objectMembers(Top.schema.kids, Top.ctx, types)))
  /\ NoAlias

onArray ==
  /\ At("onArray")
  /\ mapNext(Top.schema.kids, LAMBDA types : T("ArrayType", "", types))
  /\ NoAlias

onEnum ==
  /\ At("onEnum")
  /\ LET options == ValuesOf(Top.schema.aux) IN
       return(createUnionTypeNode(
                [i \in DOMAIN options |->
                   createLiteralTypeNode(createStringLiteral(options[i][2]))]))
  /\ NoAlias

onSomeUnion ==
  /\ At("onSomeUnion")
  /\ mapNext(Top.schema.kids, LAMBDA types : createUnionTypeNode(types))
  /\ NoAlias

\* The type of a transform in response mode, from the type of its inner schema.
effectOutput(s, input) ==
  createKeywordTypeNode(effectKeyword(tryToTransform(s, makeSample(input))))

\* A faulty effects producer that looks at the mode first and samples a
\* transform in response mode without converting the inner schema;
\* C10_EffectsConvertsInner must reject it.
onEffects_modeFirst ==
  /\ At("onEffects")
  /\ IF Top.ctx.isResponse /\ effectType(Top.schema) = "transform"
       THEN return(effectOutput(Top.schema, createKeywordTypeNode("AnyKeyword")))
       ELSE mapNext(Top.schema.kids, LAMBDA types : types[1])
  /\ NoAlias

onEffects ==
  /\ At("onEffects")
  /\ mapNext(Top.schema.kids,
             LAMBDA types :
               IF Top.ctx.isResponse /\ effectType(Top.schema) = "transform"
                 THEN effectOutput(Top.schema, types[1])
                 ELSE types[1])
  /\ NoAlias

onNativeEnum ==
  /\ At("onNativeEnum")
  /\ LET values == ValuesOf(Top.schema.aux) IN
       return(createUnionTypeNode(
                [i \in DOMAIN values |->
                   createLiteralTypeNode(
                     IF values[i][1] = "number"
                       THEN createNumericLiteral(values[i][2])
                       ELSE createStringLiteral(values[i][2]))]))
  /\ NoAlias

onOptional ==
  /\ At("onOptional")
  /\ mapNext(Top.schema.kids,
             LAMBDA types :
               IF Top.ctx.withUndefined
                 THEN createUnionTypeNode(<<types[1], createKeywordTypeNode("UndefinedKeyword")>>)
                 ELSE types[1])
  /\ NoAlias

onNullable ==
  /\ At("onNullable")
  /\ mapNext(Top.schema.kids,
             LAMBDA types : createUnionTypeNode(<<types[1], createLiteralTypeNode(createNull)>>))
  /\ NoAlias

\* A tuple's kids are its items, followed by its rest schema when aux says so.
onTuple ==
  /\ At("onTuple")
  /\ mapNext(Top.schema.kids,
             LAMBDA types :
               T("TupleType", "",
                 IF Top.schema.aux = "rest"
                   THEN Append(SubSeq(types, 1, Len(types) - 1),
                               T("RestType", "", <<types[Len(types)]>>))
                   ELSE types))
  /\ NoAlias

onRecord ==
  /\ At("onRecord")
  /\ mapNext(Top.schema.kids, LAMBDA types : T("ExpressionWithTypeArguments", "Record", types))
  /\ NoAlias

onIntersection ==
  /\ At("onIntersection")
  /\ mapNext(Top.schema.kids, LAMBDA types : T("IntersectionType", "", types))
  /\ NoAlias

onDefault ==
  /\ At("onDefault")
  /\ mapNext(Top.schema.kids, LAMBDA types : types[1])
  /\ NoAlias

onPrimitive ==
  /\ At("onPrimitive")
  /\ return(createKeywordTypeNode(primitiveKeyword(Top.schema.tn)))
  /\ NoAlias

onBranded ==
  /\ At("onBranded")
  /\ mapNext(Top.schema.kids, LAMBDA types : types[1])
  /\ NoAlias

onReadonly ==
  /\ At("onReadonly")
  /\ mapNext(Top.schema.kids, LAMBDA types : types[1])
  /\ NoAlias

onCatch ==
  /\ At("onCatch")
  /\ mapNext(Top.schema.kids, LAMBDA types : types[1])
  /\ NoAlias

\* A faulty choice of the pipeline's side; C7_IsResponseFixed must reject it.
pipelineSide_swapped(isResponse) == IF isResponse THEN 1 ELSE 2

\* schema._def[isResponse ? "out" : "in"]: a pipeline's kids are <<in, out>>.
pipelineSide(isResponse) == IF isResponse THEN 2 ELSE 1

onPipeline ==
  /\ At("onPipeline")
  /\ LET side == pipelineSide(Top.ctx.isResponse) IN
       IF Top.results = <<>>
         THEN next(Top.schema.kids[side], side)
         ELSE return(Top.results[1])
  /\ NoAlias

onNull ==
  /\ At("onNull")
  /\ return(createLiteralTypeNode(createNull))
  /\ NoAlias

\* A faulty naming, by the lazy node's own identity instead of the structure
\* of what it wraps; C3_SameFingerprintOneAlias must reject it.
lazyName_byIdentity(lazy) ==
  [prefix |-> IF lazy.ref = 1 THEN "Type" ELSE "Type_", hash |-> serialize(defs[lazy.ref])]

\* `Type${serialize(lazy.schema)}`: lazy.schema is what the getter returns.
lazyName(lazy) == [prefix |-> "Type", hash |-> serialize(defs[lazy.ref])]

\* A faulty first phase that registers nothing; C9_TwoPhase must reject it.
lazyPlaceholder_skipped(table, name) == table

\* makeAlias(name, f.createLiteralTypeNode(f.createNull())): make empty type first
lazyPlaceholder(table, name) == makeAlias(table, name, createLiteralTypeNode(createNull))

\* Faulty lookups: one that never finds the entry (C1_CycleTerminates must
\* reject it), one that finds it only once it is resolved
\* (C2_ExistingAliasReused must reject it).
lazyExisting_never(table, name) == <<>>

lazyExisting_resolvedOnly(table, name) ==
  IF \E i \in DOMAIN table :
       table[i].name = name /\ table[i].type # createLiteralTypeNode(createNull)
    THEN getAlias(table, name)
    ELSE <<>>

\* getAlias(name) || ...: the entry the lazy producer returns at once, if any.
lazyExisting(table, name) == getAlias(table, name)

\* One step of the lazy producer: "existing" (the entry was there), "resolve"
\* (placeholder written, next called on the wrapped schema) or "update" (the
\* entry overwritten with the type next returned); ret is what it returned.
LazyEvent(ev, name, type, ret) ==
  [ev |-> ev, ref |-> Top.schema.ref, path |-> Top.path, name |-> name,
   type |-> type, ret |-> ret]

onLazy ==
  /\ At("onLazy")
  /\ LET name == lazyName(Top.schema) IN
       IF Top.results = <<>>
         THEN IF lazyExisting(aliases, name) # <<>>
                THEN /\ return(lazyExisting(aliases, name)[1])
                     /\ lazyLog' = Append(lazyLog,
                                          LazyEvent("existing", name, <<>>,
                                                    lazyExisting(aliases, name)))
                     /\ UNCHANGED aliases
                ELSE /\ aliases' = lazyPlaceholder(aliases, name)
                     /\ next(defs[Top.schema.ref], 1)
                     /\ lazyLog' = Append(lazyLog, LazyEvent("resolve", name, <<>>, <<>>))
         ELSE /\ aliases' = makeAlias(aliases, name, Top.results[1])
              /\ return(createTypeReferenceNode(name))
              /\ lazyLog' = Append(lazyLog,
                                   LazyEvent("update", name, <<Top.results[1]>>,
                                             <<createTypeReferenceNode(name)>>))
  /\ UNCHANGED <<schema, defs, ctx>>

\* A file schema's aux is the class of the schema underneath.
onFile ==
  /\ At("onFile")
  /\ LET stringType == createKeywordTypeNode("StringKeyword")
         bufferType == T("TypeReference", "Buffer", <<>>)
     IN return(IF Top.schema.aux = "ZodString" THEN stringType
               ELSE IF Top.schema.aux = "ZodUnion"
                 THEN createUnionTypeNode(<<stringType, bufferType>>)
                 ELSE bufferType)
  /\ NoAlias

\* A raw schema's only kid is shape.raw.
onRaw ==
  /\ At("onRaw")
  /\ mapNext(Top.schema.kids, LAMBDA types : types[1])
  /\ NoAlias

\* walkSchema on a kind without a handler.
onMissing ==
  /\ At("onMissing")
  /\ return(onMissingType)
  /\ NoAlias

---------------------------------------------------------------------------
(* The inputs of a call: the schemas, the definitions their lazy getters   *)
(* return, and the contexts.                                               *)

DefNames == 1 .. MaxDefs

NextDef(n) == (n % MaxDefs) + 1

ZString == S("ZodString", "", <<>>)

ZNumber == S("ZodNumber", "", <<>>)

Wrap(tn, s) == S(tn, "", <<s>>)

Effects(payload, s) == S("ZodEffects", payload, <<s>>)

\* ZodUndefined, ZodUnknown and ZodMap are kinds the registry has no producer for.
LeafSchemas ==
  {S(tn, "", <<>>) : tn \in PrimitiveKinds \cup {"ZodNull", "ZodUndefined", "ZodUnknown"}}
    \cup {S("ZodLiteral", v, <<>>) : v \in {"1", "true", "false", "a"}}
    \cup {S("ZodEnum", "x,y", <<>>), S("ZodNativeEnum", "A,0", <<>>)}
    \cup {S("File", u, <<>>) : u \in {"ZodString", "ZodUnion", "ZodEffects"}}

LazySchemas == {Lazy(n) : n \in DefNames}

WrapperKinds ==
  {"ZodArray", "ZodOptional", "ZodNullable", "ZodDefault", "ZodBranded",
   "ZodReadonly", "ZodCatch", "Raw", "ZodMap"}

TransformFns == {"parseInt", "fail", "identity", "thunk", "length", "toObject"}

EffectPayloads == {"refinement", "preprocess"} \cup TransformFns

Wrapped(inner) ==
  {Wrap(tn, s) : tn \in WrapperKinds, s \in inner}
    \cup {Effects(e, s) : e \in EffectPayloads, s \in inner}

\* A transform over a wrapped schema: the inner type is then any TypeNode kind.
NestedEffects ==
  {Effects(fn, w) : fn \in TransformFns,
                    w \in Wrapped({ZString, ZNumber, S("ZodUndefined", "", <<>>)})}

FieldSchemas == {ZString, ZNumber, Wrap("ZodOptional", ZNumber), Effects("fail", ZString)}

CompositeKinds ==
  {"ZodObject", "ZodUnion", "ZodDiscriminatedUnion", "ZodIntersection",
   "ZodRecord", "ZodPipeline", "ZodTuple"}

\* Every composite kind over plain fields; objects and pipelines over lazy
\* fields too.
Composites ==
  {S(tn, "", <<a, b>>) : tn \in CompositeKinds, a \in FieldSchemas, b \in FieldSchemas}
    \cup {S("ZodTuple", "rest", <<a, b>>) : a \in FieldSchemas, b \in FieldSchemas}
    \cup {S(tn, "", <<>>) : tn \in {"ZodObject", "ZodTuple"}}
    \cup {S(tn, "", <<a, b>>) :
            tn \in {"ZodObject", "ZodPipeline"},
            a \in LazySchemas \cup {ZString}, b \in LazySchemas \cup {ZNumber}}

\* Object fields under every answer of isOptional() and every coercion flag.
FlaggedFields ==
  {WithFlags(s, o, c) :
     s \in {ZString, Wrap("ZodOptional", ZString), Wrap("ZodDefault", ZNumber)},
     o \in BOOLEAN, c \in BOOLEAN}

Objects == {S("ZodObject", "", <<a, b>>) : a \in FlaggedFields, b \in FlaggedFields}

\* What the getter of definition n may return: a leaf, the null schema (its
\* type is the placeholder's), itself, and cycles through arrays, objects
\* and the next definition.
DefBodies(n) ==
  {ZString, S("ZodNull", "", <<>>), Lazy(n), Wrap("ZodArray", Lazy(n)),
   S("ZodObject", "", <<ZString, Wrap("ZodArray", Lazy(n))>>),
   Wrap("ZodOptional", Lazy(NextDef(n))),
   Effects("parseInt", Lazy(NextDef(n)))}

Definitions == UNION {DefBodies(n) : n \in DefNames}

\* The roots: every kind at the root and under every wrapper, and the
\* definitions themselves (a recursive schema converted from its own root).
Schemas ==
  LeafSchemas \cup LazySchemas \cup Wrapped(LeafSchemas \cup LazySchemas)
    \cup NestedEffects \cup Composites \cup Objects \cup Definitions

RECURSIVE Refs(_)
Refs(s) ==
  (IF s.tn = "ZodLazy" THEN {s.ref} ELSE {})
    \cup UNION {Refs(s.kids[i]) : i \in DOMAIN s.kids}

RECURSIVE Reach(_, _, _)
Reach(names, d, k) ==
  IF k = 0 THEN names
  ELSE Reach(names \cup UNION {Refs(d[n]) : n \in names}, d, k - 1)

\* Every assignment of a body to the getters 1 .. k.
RECURSIVE DefSeqs(_)
DefSeqs(k) ==
  IF k = 0 THEN {<<>>}
  ELSE {Append(d, b) : d \in DefSeqs(k - 1), b \in DefBodies(k)}

AllDefs == DefSeqs(MaxDefs)

\* The definitions no getter reachable from s returns are left at ZString.
DefsFor(s) ==
  IF Refs(s) = {} THEN {[n \in DefNames |-> ZString]}
  ELSE {d \in AllDefs :
          \A n \in DefNames \ Reach(Refs(s), d, MaxDefs) : d[n] = ZString}

Contexts ==
  [isResponse : BOOLEAN, withQuestionMark : BOOLEAN, withUndefined : BOOLEAN]

---------------------------------------------------------------------------
(* The top-level call, and the specification.                              *)

zodToTs ==
  /\ pc = "idle"
  /\ \E s \in Schemas, c \in Contexts :
       \E d \in DefsFor(s) :
         /\ schema' = <<s>>
         /\ defs' = d
         /\ ctx' = c
         /\ stack' = <<[schema |-> s, ctx |-> c, results |-> <<>>, path |-> <<>>]>>
  /\ pc' = "walking"
  /\ UNCHANGED <<aliases, result, last, lazyLog>>

Init ==
  /\ pc = "idle"
  /\ schema = <<>>
  /\ defs = [n \in DefNames |-> ZString]
  /\ ctx = [isResponse |-> FALSE, withQuestionMark |-> FALSE, withUndefined |-> FALSE]
  /\ aliases = <<>>
  /\ stack = <<>>
  /\ result = <<>>
  /\ last = <<>>
  /\ lazyLog = <<>>

\* A step of the walk: the producer of the schema on top of the stack.
Walk ==
  \/ onLiteral \/ onObject \/ onArray \/ onEnum \/ onSomeUnion \/ onEffects
  \/ onNativeEnum \/ onOptional \/ onNullable \/ onTuple \/ onRecord
  \/ onIntersection \/ onDefault \/ onPrimitive \/ onBranded \/ onReadonly
  \/ onCatch \/ onPipeline \/ onNull \/ onLazy \/ onFile \/ onRaw \/ onMissing

Next == zodToTs \/ Walk

Spec == Init /\ [][Next]_vars

\* The walk is synchronous: once called, a producer that can run does run.
FairSpec == Spec /\ WF_vars(Walk)

---------------------------------------------------------------------------
(* Vocabulary of the properties.                                           *)

Done == pc = "done"

Placeholder == createLiteralTypeNode(createNull)

AnyType == createKeywordTypeNode("AnyKeyword")

\* The invocation that returned last.
L == last[1]

EntryNames == {aliases[i].name : i \in DOMAIN aliases}

Events(ev) == {i \in DOMAIN lazyLog : lazyLog[i].ev = ev}

\* The lazy frames whose wrapped schema is being converted.
Resolving == {i \in DOMAIN stack : stack[i].schema.tn = "ZodLazy" /\ i < Len(stack)}

\* Definition n lies on a cycle of lazy getters.
OnCycle(n) == n \in Reach(Refs(defs[n]), defs, MaxDefs)

RECURSIVE Depth(_)
Depth(s) ==
  1 + (IF s.kids = <<>> THEN 0
       ELSE CHOOSE m \in {Depth(s.kids[i]) : i \in DOMAIN s.kids} :
              \A i \in DOMAIN s.kids : Depth(s.kids[i]) <= m)

RECURSIVE SumDepth(_)
SumDepth(n) == IF n = 0 THEN 0 ELSE Depth(defs[n]) + SumDepth(n - 1)

RECURSIVE TypeRefs(_)
\* The alias names a TypeNode refers to.
TypeRefs(t) ==
  {t.ref[i] : i \in DOMAIN t.ref} \cup UNION {TypeRefs(t.types[i]) : i \in DOMAIN t.types}

\* The name the lazy producer is to use for the lazy node with getter n.
NameOfDef(n) == [prefix |-> "Type", hash |-> serialize(defs[n])]

---------------------------------------------------------------------------
(* C1: a schema with a self-referential lazy cycle.                        *)

\* The root schema reaches a definition that lies on a cycle of lazy getters.
HasCycle ==
  schema # <<>> /\ \E n \in Reach(Refs(schema[1]), defs, MaxDefs) : OnCycle(n)

C1_Safe ==
  /\ pc # "error"
  /\ schema # <<>> => Len(stack) <= Depth(schema[1]) + SumDepth(MaxDefs)
  /\ Done =>
       /\ \A i \in DOMAIN lazyLog :
            OnCycle(lazyLog[i].ref) =>
              /\ Cardinality({k \in DOMAIN aliases :
                                aliases[k].name = NameOfDef(lazyLog[i].ref)}) = 1
              /\ lazyLog[i].ev # "resolve" =>
                   lazyLog[i].ret = <<createTypeReferenceNode(NameOfDef(lazyLog[i].ref))>>
       /\ TypeRefs(result[1]) \subseteq EntryNames
       /\ \A k \in DOMAIN aliases : TypeRefs(aliases[k].type) \subseteq EntryNames

\* C1: the conversion of a schema with a lazy cycle terminates: the call
\* stack stays within the nesting depth of the schema and of the definitions
\* its getters return, the call returns, and then the Alias Table holds
\* exactly one entry for every lazy of the cycle that the walk met, every
\* such lazy node has produced the reference by name to that entry, and no
\* reference in the result or in an alias dangles.
C1_CycleTerminates == [](C1_Safe) /\ ((pc = "walking" /\ HasCycle) ~> Done)

\* A finished call that met a lazy node again while resolving its alias.
C1_Witness ==
  /\ Done
  /\ \E i, j, k \in DOMAIN lazyLog :
       /\ i < j /\ j < k
       /\ lazyLog[i].ev = "resolve" /\ lazyLog[j].ev = "existing" /\ lazyLog[k].ev = "update"
       /\ lazyLog[i].name = lazyLog[j].name /\ lazyLog[j].name = lazyLog[k].name
       /\ lazyLog[i].path = lazyLog[k].path
       /\ OnCycle(lazyLog[j].ref)
       /\ Len(lazyLog[j].path) > Len(lazyLog[i].path) + 1

---------------------------------------------------------------------------
(* C2: entering the lazy producer for a name that has an entry.            *)

C2_Entry ==
  /\ pc = "walking"
  /\ Top.schema.tn = "ZodLazy"
  /\ Top.results = <<>>
  /\ NameOfDef(Top.schema.ref) \in EntryNames

\* C2: a lazy producer entered for a name that has an entry, resolved or
\* still the placeholder, returns the reference to that entry, calls next on
\* nothing and leaves the table alone; and the lazy producer calls next on a
\* wrapped schema at most once per alias name.
C2_ExistingAliasReused ==
  [][/\ C2_Entry =>
          /\ Len(stack') = Len(stack) - 1
          /\ last'[1].path = Top.path
          /\ last'[1].type = createTypeReferenceNode(NameOfDef(Top.schema.ref))
          /\ aliases' = aliases
     /\ \A i, j \in DOMAIN lazyLog' :
          (/\ lazyLog'[i].ev = "resolve" /\ lazyLog'[j].ev = "resolve"
           /\ lazyLog'[i].name = lazyLog'[j].name) => i = j]_vars

\* A lazy producer has just returned the reference to an entry that is still
\* the placeholder, its own alias being resolved further down the stack.
C2_Witness ==
  /\ pc = "walking"
  /\ lazyLog # <<>>
  /\ lazyLog[Len(lazyLog)].ev = "existing"
  /\ \E k \in DOMAIN aliases :
       aliases[k].name = lazyLog[Len(lazyLog)].name /\ aliases[k].type = Placeholder
  /\ \E i \in Resolving : NameOfDef(stack[i].schema.ref) = lazyLog[Len(lazyLog)].name

---------------------------------------------------------------------------
(* C3: lazy nodes that wrap schemas of one fingerprint.                    *)

\* C3: lazy nodes whose wrapped schemas have the same fingerprint use the
\* same alias name, the table holds one entry for them, and each of them
\* returns the reference to that one name.
C3_SameFingerprintOneAlias ==
  \A i, j \in DOMAIN lazyLog :
    serialize(defs[lazyLog[i].ref]) = serialize(defs[lazyLog[j].ref]) =>
      /\ lazyLog[i].name = lazyLog[j].name
      /\ Cardinality({k \in DOMAIN aliases :
                        aliases[k].name \in {lazyLog[i].name, lazyLog[j].name}}) = 1
      /\ lazyLog[i].ret # <<>> =>
           /\ lazyLog[i].ret[1].kind = "TypeReference"
           /\ lazyLog[i].ret[1].ref = <<lazyLog[j].name>>

\* Two lazy nodes with different getters, at different places, that wrap
\* schemas of one fingerprint, after a call that left one alias.
C3_Witness ==
  /\ Done
  /\ Len(aliases) = 1
  /\ \E i, j \in DOMAIN lazyLog :
       /\ lazyLog[i].ref # lazyLog[j].ref
       /\ lazyLog[i].path # lazyLog[j].path
       /\ serialize(defs[lazyLog[i].ref]) = serialize(defs[lazyLog[j].ref])
       /\ lazyLog[i].ev = "update" /\ lazyLog[j].ev = "existing"
       /\ schema[1].tn = "ZodObject"

---------------------------------------------------------------------------
(* C4: conversion is total.                                                *)

TypeKinds ==
  SampleKinds \cup
  {"LiteralType", "NullKeyword", "TrueKeyword", "FalseKeyword", "StringLiteral",
   "NumericLiteral", "UnionType", "IntersectionType", "ArrayType", "TupleType",
   "RestType", "TypeLiteral", "PropertySignature", "ExpressionWithTypeArguments",
   "TypeReference"}

RECURSIVE WellFormed(_)
WellFormed(t) ==
  t.kind \in TypeKinds /\ \A i \in DOMAIN t.types : WellFormed(t.types[i])

C4_Safe ==
  /\ pc # "error"
  /\ pc = "walking" => stack # <<>>
  /\ Done => Len(result) = 1 /\ WellFormed(result[1])
  /\ (last # <<>> /\ L.schema.tn \notin DOMAIN producers) =>
       L.type = AnyType /\ L.results = <<>>

\* C4: in either mode, the conversion of every schema never ends in an
\* error, returns, and returns a TypeNode; a schema of a kind without a
\* producer, at the root or below it, converts to the any keyword.
C4_Total == [](C4_Safe) /\ ((pc = "walking") ~> Done)

\* A finished call on an array of a kind the registry does not cover.
C4_Witness ==
  /\ Done
  /\ schema = <<Wrap("ZodArray", S("ZodUnknown", "", <<>>))>>
  /\ result = <<T("ArrayType", "", <<AnyType>>)>>

---------------------------------------------------------------------------
(* C5 and C6: a transform in response mode.                                *)

\* The sample table as the specification states it: none for any, and none
\* for a kind that is not listed.
StatedSample(kind) ==
  CASE kind = "BigIntKeyword" -> "bigint0"
    [] kind = "BooleanKeyword" -> "false"
    [] kind = "NumberKeyword" -> "zero"
    [] kind = "ObjectKeyword" -> "emptyObject"
    [] kind = "StringKeyword" -> "emptyString"
    [] kind = "UndefinedKeyword" -> "undefined"
    [] OTHER -> "none"

\* The value the transform is given: the empty string for any as for string,
\* and undefined for a kind that is not listed.
GivenSample(kind) ==
  CASE kind \in {"AnyKeyword", "StringKeyword"} -> "emptyString"
    [] kind = "BigIntKeyword" -> "bigint0"
    [] kind = "BooleanKeyword" -> "false"
    [] kind = "NumberKeyword" -> "zero"
    [] kind = "ObjectKeyword" -> "emptyObject"
    [] OTHER -> "undefined"

KeywordOfType(type) ==
  CASE type = "number" -> createKeywordTypeNode("NumberKeyword")
    [] type = "bigint" -> createKeywordTypeNode("BigIntKeyword")
    [] type = "boolean" -> createKeywordTypeNode("BooleanKeyword")
    [] type = "string" -> createKeywordTypeNode("StringKeyword")
    [] type = "undefined" -> createKeywordTypeNode("UndefinedKeyword")
    [] type = "object" -> createKeywordTypeNode("ObjectKeyword")
    [] OTHER -> AnyType

\* A frame of a transform in response mode.
IsTransform(frame) ==
  /\ frame.schema.tn = "ZodEffects"
  /\ frame.schema.aux \in TransformFns
  /\ frame.ctx.isResponse

\* The claim C5 as stated: any on a throw, on a missing sample and on a
\* result without a mapping.
C5_Original ==
  (last # <<>> /\ IsTransform(L)) =>
    LET sample == StatedSample(L.results[1].kind) IN
      (\/ sample = "none"
       \/ transform(L.schema.aux, sample) = "throws"
       \/ KeywordOfType(transform(L.schema.aux, sample)) = AnyType)
        => L.type = AnyType

\* The transform of the frame fails on the value it is given, or returns a
\* value whose runtime type has no mapping.
C5_Fails(frame) ==
  LET r == transform(frame.schema.aux, GivenSample(frame.results[1].kind)) IN
    r = "throws" \/ r \notin {"number", "bigint", "boolean", "string", "undefined", "object"}

\* C5 (amended): in response mode, a transform that throws on the value it
\* is given (the table's sample, or undefined when the inner type has no
\* table entry), or whose result has no mapping, makes the producer return
\* the any keyword; the call does not end in an error, and the caller of
\* the producer (the parent's walk, or the caller of the conversion) gets
\* that type and goes on.
C5_FailureContained ==
  [][(/\ pc = "walking"
      /\ IsTransform(Top)
      /\ Top.results # <<>>
      /\ C5_Fails(Top)) =>
        /\ pc' # "error"
        /\ last'[1].path = Top.path
        /\ last'[1].type = AnyType
        /\ IF Len(stack) = 1
             THEN pc' = "done" /\ result' = <<AnyType>>
             ELSE /\ pc' = "walking"
                  /\ Len(stack') = Len(stack) - 1
                  /\ stack'[Len(stack')].results =
                       Append(stack[Len(stack) - 1].results, AnyType)]_vars

\* A finished call in response mode on an object whose first field is a
\* transform that throws: the field's type is any, its sibling's is number.
C5_Witness ==
  /\ Done
  /\ ctx.isResponse
  /\ schema = <<S("ZodObject", "", <<Effects("fail", ZString), ZNumber>>)>>
  /\ result[1].types[1].types[1] = AnyType
  /\ result[1].types[2].types[1] = createKeywordTypeNode("NumberKeyword")

\* The claim C6 as stated: the type follows the stated table, with no sample
\* for any and for a kind that is not listed.
C6_Original ==
  (last # <<>> /\ IsTransform(L)) =>
    LET sample == StatedSample(L.results[1].kind) IN
      L.type = IF sample = "none" \/ transform(L.schema.aux, sample) = "throws"
                 THEN AnyType
                 ELSE KeywordOfType(transform(L.schema.aux, sample))

\* C6 (amended): in response mode the type of a transform is the keyword of
\* the runtime type of what the transform returns on the value it is given
\* for the type of its inner schema (any and string: the empty string,
\* bigint: 0, boolean: false, number: 0, object: the empty structure,
\* undefined and every other kind: undefined), and the any keyword when the
\* transform throws or the runtime type has no mapping.
C6_SampledType ==
  (last # <<>> /\ IsTransform(L)) =>
    LET r == transform(L.schema.aux, GivenSample(L.results[1].kind)) IN
      /\ Len(L.results) = 1
      /\ L.type = IF r = "throws" THEN AnyType ELSE KeywordOfType(r)

\* A finished call in response mode on a transform over any that returns its
\* argument: the type is string, the runtime type of the empty string.
C6_Witness ==
  /\ Done
  /\ ctx.isResponse
  /\ schema = <<Effects("identity", S("ZodAny", "", <<>>))>>
  /\ result = <<createKeywordTypeNode("StringKeyword")>>

---------------------------------------------------------------------------
(* C7: the mode of a call.                                                 *)

\* The side of a pipeline the mode of the call selects: in is 1, out is 2.
SideOfCall == IF ctx.isResponse THEN 2 ELSE 1

\* C7: every producer invocation of a call has the isResponse of the call;
\* a pipeline calls next once, on its in schema when isResponse is false
\* and on its out schema when it is true, with that same isResponse, and
\* returns what that call returned.
C7_IsResponseFixed ==
  /\ \A i \in DOMAIN stack :
       /\ stack[i].ctx.isResponse = ctx.isResponse
       /\ stack[i].schema.tn = "ZodPipeline" =>
            /\ Len(stack[i].results) <= 1
            /\ i < Len(stack) =>
                 /\ stack[i].results = <<>>
                 /\ stack[i + 1].path = Append(stack[i].path, SideOfCall)
                 /\ stack[i + 1].schema = stack[i].schema.kids[SideOfCall]
  /\ last # <<>> =>
       /\ L.ctx.isResponse = ctx.isResponse
       /\ L.schema.tn = "ZodPipeline" => Len(L.results) = 1 /\ L.type = L.results[1]
       /\ (stack # <<>> /\ Top.schema.tn = "ZodPipeline" /\ Top.results # <<>>) =>
            /\ L.path = Append(Top.path, SideOfCall)
            /\ Top.results = <<L.type>>

\* A finished call in response mode on a pipeline from string to number: the
\* result is the type of the out side.
C7_Witness ==
  /\ Done
  /\ ctx.isResponse
  /\ schema = <<S("ZodPipeline", "", <<ZString, ZNumber>>)>>
  /\ result = <<createKeywordTypeNode("NumberKeyword")>>

---------------------------------------------------------------------------
(* C8: the members of an object.                                           *)

\* C8: the type of an object is a type literal with one member per field, in
\* declaration order; a member has the question mark exactly when
\* withQuestionMark is set and the field is optional (in response mode a
\* field with coercion is optional exactly when it is an optional wrapper,
\* any other field when its isOptional() holds); the member's type is what
\* next returned for the field.
C8_MemberOptionality ==
  (last # <<>> /\ L.schema.tn = "ZodObject") =>
    /\ L.type.kind = "TypeLiteral"
    /\ Len(L.type.types) = Len(L.schema.kids)
    /\ Len(L.results) = Len(L.schema.kids)
    /\ \A i \in DOMAIN L.schema.kids :
         LET field == L.schema.kids[i]
             member == L.type.types[i]
             optional == IF ctx.isResponse /\ hasCoercion(field)
                           THEN field.tn = "ZodOptional"
                           ELSE isOptional(field)
         IN /\ member.kind = "PropertySignature"
            /\ member.text = Key(i)
            /\ member.q = (ctx.withQuestionMark /\ optional)
            /\ member.types = <<L.results[i]>>

\* A finished call in response mode, with question marks, on an object whose
\* first field has coercion and answers isOptional() with true without being
\* an optional wrapper, and whose second field is an optional wrapper: only
\* the second member has the question mark.
C8_Witness ==
  /\ Done
  /\ ctx.isResponse /\ ctx.withQuestionMark
  /\ schema[1].tn = "ZodObject" /\ Len(schema[1].kids) = 2
  /\ schema[1].kids[1] = WithFlags(ZString, TRUE, TRUE)
  /\ schema[1].kids[2].tn = "ZodOptional" /\ schema[1].kids[2].coerce
  /\ ~result[1].types[1].q
  /\ result[1].types[2].q

---------------------------------------------------------------------------
(* C9: the two phases of an alias.                                         *)

UpdatesOf(name) == {i \in Events("update") : lazyLog[i].name = name}

\* The lazy frames that have registered the placeholder and not yet
\* overwritten it: the wrapped schema is being converted, or its type has
\* come back and the update is the next step.
Pending ==
  {i \in DOMAIN stack : stack[i].schema.tn = "ZodLazy"
                          /\ (i < Len(stack) \/ stack[i].results # <<>>)}

\* C9: while the wrapped schema of a lazy node is being converted, the entry
\* of its alias is there and is the placeholder; an entry is the placeholder
\* of an alias being resolved until the lazy producer has overwritten it,
\* once, with the type next returned for the wrapped schema; when the call
\* has returned every entry has been overwritten so.
C9_TwoPhase ==
  /\ \A i \in Resolving :
       \E k \in DOMAIN aliases :
         aliases[k].name = NameOfDef(stack[i].schema.ref) /\ aliases[k].type = Placeholder
  /\ \A k \in DOMAIN aliases :
       IF UpdatesOf(aliases[k].name) = {}
         THEN /\ aliases[k].type = Placeholder
              /\ \E i \in Pending : NameOfDef(stack[i].schema.ref) = aliases[k].name
              /\ ~Done
         ELSE /\ Cardinality(UpdatesOf(aliases[k].name)) = 1
              /\ \A u \in UpdatesOf(aliases[k].name) :
                   /\ aliases[k].type = lazyLog[u].type[1]
                   /\ \E r \in Events("resolve") :
                        r < u /\ lazyLog[r].name = aliases[k].name
                              /\ lazyLog[r].path = lazyLog[u].path
  /\ \A i, k \in DOMAIN aliases : aliases[i].name = aliases[k].name => i = k

\* A finished call that left two aliases, the first an object type that
\* refers to itself.
C9_Witness ==
  /\ Done
  /\ Len(aliases) = 2
  /\ aliases[1].type.kind = "TypeLiteral"
  /\ aliases[1].name \in TypeRefs(aliases[1].type)
  /\ aliases[2].type # Placeholder

---------------------------------------------------------------------------
(* C10: the effects producer converts the inner schema first.              *)

\* C10: an effects producer has called next on its inner schema when it
\* returns, in either mode and for every effect; when the call has returned,
\* the names of the Alias Table are the names of the lazy nodes the walk met;
\* and a call in response mode on a transform over a lazy node returns a
\* keyword that refers to no alias and leaves the resolved alias of that
\* lazy node in the table.
C10_EffectsConvertsInner ==
  /\ (last # <<>> /\ L.schema.tn = "ZodEffects") => Len(L.results) = 1
  /\ Done => EntryNames = {lazyLog[i].name : i \in DOMAIN lazyLog}
  /\ (/\ Done
      /\ ctx.isResponse
      /\ schema[1].tn = "ZodEffects"
      /\ schema[1].aux \in TransformFns
      /\ schema[1].kids[1].tn = "ZodLazy") =>
        /\ result[1].kind \in SampleKinds
        /\ TypeRefs(result[1]) = {}
        /\ NameOfDef(schema[1].kids[1].ref) \in EntryNames
        /\ UpdatesOf(NameOfDef(schema[1].kids[1].ref)) # {}

\* A finished call in response mode on a transform over a lazy string: the
\* result is the number keyword, and the table holds the alias of the string.
C10_Witness ==
  /\ Done
  /\ ctx.isResponse
  /\ schema = <<Effects("parseInt", Lazy(1))>>
  /\ defs[1] = ZString
  /\ result = <<createKeywordTypeNode("NumberKeyword")>>
  /\ aliases = <<[name |-> NameOfDef(1), type |-> createKeywordTypeNode("StringKeyword")]>>

===========================================================================
